---- MODULE Spec2Model ----
(***************************************************************************)
(* Model of the in-memory rental store (src/server/storage.ts, MemStorage) *)
(* : the vehicle and booking maps, the expiry sweep, the availability      *)
(* resolver and the stats aggregator.                                      *)
(*                                                                         *)
(* Dates.  The store keeps dates as "yyyy-MM-dd" strings and compares them *)
(* either as strings (the sweep) or after parseISO as instants (overlap,   *)
(* stats).  A date string is modelled as the pair <<month, dayOfMonth>>,   *)
(* compared lexicographically like the zero-padded string; an instant is   *)
(* the number of days since day 0 (local midnight).  A calendar month has  *)
(* DaysPerMonth days.  Only well-formed dates with startDate <= endDate    *)
(* are drawn as inputs.                                                    *)
(*                                                                         *)
(* Vehicle records keep id, model, dailyRate and status; the display-only  *)
(* fields (plate, transmission, colorHex, imageUrl, rateType) are read by  *)
(* no operation of the store and are left out.                             *)
(***************************************************************************)
EXTENDS Integers, Sequences, FiniteSets, TLC

\* ---- bounds ----
DaysPerMonth == 4       \* length of a calendar month, in days
Today0 == 2             \* the day the store is constructed
MaxToday == 6           \* the clock stops advancing on this day
MaxNewBookings == 1     \* createBooking calls
MaxNewVehicles == 1     \* createVehicle calls

VARIABLES vehicles, bookings, today, ret

vars == <<vehicles, bookings, today, ret>>

\* ---- date-fns and string helpers ----

\* format(date, "yyyy-MM-dd"): instant -> date string
format(t) == <<t \div DaysPerMonth, (t % DaysPerMonth) + 1>>

\* parseISO of a date-only string: date string -> instant (local midnight)
parseISO(s) == s[1] * DaysPerMonth + (s[2] - 1)

\* a < b on two "yyyy-MM-dd" strings (JavaScript string comparison)
StrLess(a, b) == a[1] < b[1] \/ (a[1] = b[1] /\ a[2] < b[2])

\* date-fns areIntervalsOverlapping without the `inclusive` option:
\* adjacent intervals do not count as overlapping
areIntervalsOverlapping(l, r) == l.start < r.end /\ r.start < l.end

\* date-fns isWithinInterval: both ends inclusive
isWithinInterval(t, i) == t >= i.start /\ t <= i.end

\* mutant: the earliest instant is taken
max_Earliest(S) == CHOOSE x \in S : \A y \in S : x <= y

\* date-fns max of a non-empty collection of instants
max(S) == CHOOSE x \in S : \A y \in S : y <= x

addDays(t, n) == t + n

startOfMonth(t) == t - (t % DaysPerMonth)

\* the last instant of the month: it lies on the month's last day
endOfMonth(t) == startOfMonth(t) + (DaysPerMonth - 1)

\* an argument that was not passed
Undefined == <<>>

\* JavaScript object spread {...a, ...b}
Spread(a, b) ==
    [f \in DOMAIN a \cup DOMAIN b |-> IF f \in DOMAIN b THEN b[f] ELSE a[f]]

\* Map.set(k, v)
MapSet(m, k, v) == [x \in DOMAIN m \cup {k} |-> IF x = k THEN v ELSE m[x]]

\* Map.delete(k)
MapDelete(m, k) == [x \in DOMAIN m \ {k} |-> m[x]]

\* randomUUID(): the n-th identifier handed out
NewBookingId(n) == "u" \o ToString(n)
NewVehicleId(n) == "w" \o ToString(n)

\* ---- construction ----

mockVehicles ==
    [id \in {"v1", "v2", "v3", "v4", "v5"} |->
        [id |-> id,
         model |-> CASE id = "v1" -> "Toyota Vios"
                     [] id = "v2" -> "Honda City"
                     [] id = "v3" -> "Mitsubishi Mirage"
                     [] id = "v4" -> "Nissan Almera"
                     [] id = "v5" -> "Suzuki Ertiga",
         dailyRate |-> CASE id = "v1" -> 1500
                         [] id = "v2" -> 1800
                         [] id = "v3" -> 1200
                         [] id = "v4" -> 1600
                         [] id = "v5" -> 2200,
         status |-> IF id = "v4" THEN "maintenance" ELSE "available"]]

mockBookings(t) ==
    [id \in {"b1", "b2", "b3"} |->
        CASE id = "b1" ->
               [id |-> "b1", vehicleId |-> "v1",
                guestName |-> "Juan dela Cruz", guestPhone |-> "+63 912 345 6789",
                startDate |-> format(t), endDate |-> format(addDays(t, 3)),
                totalPrice |-> 4500, status |-> "confirmed",
                idVerified |-> TRUE, idImageUrl |-> "null"]
          [] id = "b2" ->
               [id |-> "b2", vehicleId |-> "v2",
                guestName |-> "Maria Santos", guestPhone |-> "+63 923 456 7890",
                startDate |-> format(addDays(t, 2)), endDate |-> format(addDays(t, 5)),
                totalPrice |-> 5400, status |-> "pending",
                idVerified |-> FALSE, idImageUrl |-> "null"]
          [] id = "b3" ->
               [id |-> "b3", vehicleId |-> "v5",
                guestName |-> "Pedro Reyes", guestPhone |-> "+63 934 567 8901",
                startDate |-> format(addDays(t, 1)), endDate |-> format(addDays(t, 4)),
                totalPrice |-> 6600, status |-> "confirmed",
                idVerified |-> TRUE, idImageUrl |-> "null"]]

NoRet == [op |-> "none"]

Init ==
    /\ today = Today0
    /\ vehicles = mockVehicles
    /\ bookings = mockBookings(Today0)
    /\ ret = NoRet

\* ---- the expiry sweep ----

\* the keys of the booking map in insertion order (Map.forEach order)
bookingKeyOrder ==
    <<"b1", "b2", "b3">> \o [i \in 1..MaxNewBookings |-> NewBookingId(i)]

\* the body of the forEach callback, applied to the entries from position i on
RECURSIVE sweepFrom(_, _, _)
sweepFrom(bk, i, todayStr) ==
    IF i > Len(bookingKeyOrder) THEN bk
    ELSE LET k == bookingKeyOrder[i] IN
         IF k \in DOMAIN bk /\ bk[k].status = "confirmed"
                            /\ StrLess(bk[k].endDate, todayStr)
         THEN LET booking == [bk[k] EXCEPT !.status = "completed"] IN
              sweepFrom(MapSet(MapSet(bk, k, booking), booking.id, booking),
                        i + 1, todayStr)
         ELSE sweepFrom(bk, i + 1, todayStr)

\* mutant: one pass completes one expired booking only
updateExpiredBookings_OnePerPass(bk, t) ==
    LET expired == {k \in DOMAIN bk : /\ bk[k].status = "confirmed"
                                      /\ StrLess(bk[k].endDate, format(t))}
    IN IF expired = {} THEN bk
       ELSE LET k == CHOOSE x \in expired : TRUE IN
            MapSet(bk, k, [bk[k] EXCEPT !.status = "completed"])

updateExpiredBookings(bk, t) == sweepFrom(bk, 1, format(t))

\* ---- the availability resolver ----

\* the view of a vehicle that is not in maintenance
rangeView(vehicle, allBookings, start, end) ==
    LET searchInterval == [start |-> parseISO(start), end |-> parseISO(end)]
        vehicleBookings ==
            {k \in DOMAIN allBookings :
                /\ allBookings[k].vehicleId = vehicle.id
                /\ allBookings[k].status # "cancelled"}
        isBookedInSearchRange ==
            \E k \in vehicleBookings :
                areIntervalsOverlapping(searchInterval,
                    [start |-> parseISO(allBookings[k].startDate),
                     end |-> parseISO(allBookings[k].endDate)])
    IN IF isBookedInSearchRange
       THEN LET lastBookingEnd ==
                    max({parseISO(allBookings[k].endDate) : k \in vehicleBookings})
                nextAvailable == addDays(lastBookingEnd, 1)
            IN Spread(vehicle, [status |-> "booked",
                                nextAvailableDate |-> format(nextAvailable)])
       ELSE Spread(vehicle, [status |-> "available"])

\* mutant: the maintenance flag is not looked at
vehicleView_NoMaintenance(vehicle, allBookings, start, end) ==
    rangeView(vehicle, allBookings, start, end)

\* the callback of allVehicles.map in the ranged branch
vehicleView(vehicle, allBookings, start, end) ==
    IF vehicle.status = "maintenance"
    THEN Spread(vehicle, [status |-> "maintenance"])
    ELSE rangeView(vehicle, allBookings, start, end)

\* mutant: a listing without a range looks at the bookings too, over the
\* whole modelled period
getVehiclesResult_AlwaysRanged(allVehicles, allBookings, start, end) ==
    [id \in DOMAIN allVehicles |->
        IF start = Undefined \/ end = Undefined
        THEN vehicleView(allVehicles[id], allBookings,
                         format(Today0), format(MaxToday))
        ELSE vehicleView(allVehicles[id], allBookings, start, end)]

getVehiclesResult(allVehicles, allBookings, start, end) ==
    IF start = Undefined \/ end = Undefined
    THEN [id \in DOMAIN allVehicles |->
             Spread(allVehicles[id],
                    [status |-> IF allVehicles[id].status = "maintenance"
                                THEN "maintenance" ELSE "available"])]
    ELSE [id \in DOMAIN allVehicles |->
             vehicleView(allVehicles[id], allBookings, start, end)]

\* the dates a caller searches with
QueryDates == {format(t) : t \in Today0..MaxToday}

QueryArgs == {<<Undefined, Undefined>>} \cup
             {<<s, e>> \in QueryDates \X QueryDates : ~StrLess(e, s)}

\* mutant: the computed views are written back to the store
getVehicles_StoresViews(start, end) ==
    /\ bookings' = updateExpiredBookings(bookings, today)
    /\ ret' = [op |-> "getVehicles", start |-> start, end |-> end,
               value |-> getVehiclesResult(vehicles, bookings', start, end)]
    /\ vehicles' = ret'.value
    /\ UNCHANGED today

getVehicles(start, end) ==
    /\ bookings' = updateExpiredBookings(bookings, today)
    /\ ret' = [op |-> "getVehicles", start |-> start, end |-> end,
               value |-> getVehiclesResult(vehicles, bookings', start, end)]
    /\ UNCHANGED <<vehicles, today>>

getVehicle(id) ==
    /\ ret' = [op |-> "getVehicle", id |-> id,
               value |-> IF id \in DOMAIN vehicles THEN vehicles[id] ELSE Undefined]
    /\ UNCHANGED <<vehicles, bookings, today>>

\* ---- vehicle writes ----

\* the bodies createVehicle is called with (status is optional)
InsertVehicles == {[model |-> "Kia Soluto", dailyRate |-> 1400]}

\* the partial records updateVehicle is called with: the three values of
\* vehicleStatusSchema, which the PATCH route lets through
VehicleUpdates ==
    {[status |-> "maintenance"], [status |-> "available"], [status |-> "booked"]}

\* the ids updateVehicle and getVehicle are called with
VehicleIdArgs == {"v1", "nope"}

\* the ids deleteVehicle is called with
VehicleDeleteArgs == {"v1", "nope"}

createVehicle(vehicle) ==
    /\ \E n \in 1..MaxNewVehicles :
         /\ NewVehicleId(n) \notin DOMAIN vehicles
         /\ \A m \in 1..(n - 1) : NewVehicleId(m) \in DOMAIN vehicles
         /\ LET id == NewVehicleId(n)
                newVehicle ==
                    Spread(vehicle,
                           [id |-> id,
                            status |-> IF "status" \in DOMAIN vehicle
                                       THEN vehicle.status ELSE "available"])
            IN /\ vehicles' = MapSet(vehicles, id, newVehicle)
               /\ ret' = [op |-> "createVehicle", value |-> newVehicle]
    /\ UNCHANGED <<bookings, today>>

\* mutant: an unknown id is not looked for, the patch is stored under it
updateVehicle_Upsert(id, updates) ==
    /\ LET updated == Spread(IF id \in DOMAIN vehicles
                             THEN vehicles[id] ELSE [id |-> id], updates) IN
       /\ vehicles' = MapSet(vehicles, id, updated)
       /\ ret' = [op |-> "updateVehicle", id |-> id, value |-> updated]
    /\ UNCHANGED <<bookings, today>>

updateVehicle(id, updates) ==
    /\ IF id \notin DOMAIN vehicles
       THEN /\ ret' = [op |-> "updateVehicle", id |-> id, value |-> Undefined]
            /\ UNCHANGED vehicles
       ELSE LET updated == Spread(vehicles[id], updates) IN
            /\ vehicles' = MapSet(vehicles, id, updated)
            /\ ret' = [op |-> "updateVehicle", id |-> id, value |-> updated]
    /\ UNCHANGED <<bookings, today>>

\* mutant: the bookings of the vehicle are deleted with it
deleteVehicle_Cascade(id) ==
    /\ vehicles' = MapDelete(vehicles, id)
    /\ bookings' = [k \in {x \in DOMAIN bookings : bookings[x].vehicleId # id}
                    |-> bookings[k]]
    /\ ret' = [op |-> "deleteVehicle", id |-> id, value |-> (id \in DOMAIN vehicles)]
    /\ UNCHANGED today

deleteVehicle(id) ==
    /\ vehicles' = MapDelete(vehicles, id)
    /\ ret' = [op |-> "deleteVehicle", id |-> id, value |-> (id \in DOMAIN vehicles)]
    /\ UNCHANGED <<bookings, today>>

\* ---- booking reads ----

getBookings ==
    /\ bookings' = updateExpiredBookings(bookings, today)
    /\ ret' = [op |-> "getBookings", value |-> bookings']
    /\ UNCHANGED <<vehicles, today>>

\* the ids updateBooking and getBooking are called with
BookingIdArgs == {"b1", "nope"}

getBooking(id) ==
    /\ ret' = [op |-> "getBooking", id |-> id,
               value |-> IF id \in DOMAIN bookings THEN bookings[id] ELSE Undefined]
    /\ UNCHANGED <<vehicles, bookings, today>>

getBookingsByVehicle(vehicleId) ==
    /\ bookings' = updateExpiredBookings(bookings, today)
    /\ ret' = [op |-> "getBookingsByVehicle", vehicleId |-> vehicleId,
               value |-> [k \in {x \in DOMAIN bookings' :
                                    bookings'[x].vehicleId = vehicleId}
                          |-> bookings'[k]]]
    /\ UNCHANGED <<vehicles, today>>

\* ---- booking writes ----

BookingStatuses ==
    {"pending", "pending_id_missing", "confirmed", "completed", "cancelled", "archived"}

\* the [startDate, endDate] pairs new bookings are made for: the first two
\* days of the first mock booking
NewBookingRanges ==
    {<<format(Today0), format(addDays(Today0, 1))>>}

\* the bodies createBooking is called with (status, idVerified and idImageUrl
\* are optional)
InsertBookings ==
    {Spread([vehicleId |-> "v1", guestName |-> "Ana Lim",
             guestPhone |-> "+63 945 678 9012",
             startDate |-> r[1], endDate |-> r[2], totalPrice |-> 3000], opt) :
        r \in NewBookingRanges,
        opt \in {<<>>, [status |-> "confirmed", idVerified |-> TRUE]}}

\* a status value that no enumeration of the program knows
UnknownStatus == "bogus"

\* the partial records updateBooking is called with: a status, known or not,
\* or (the PATCH route hands the request body over unfiltered) the id of
\* another booking
BookingUpdates ==
    {[status |-> s] : s \in BookingStatuses \cup {UnknownStatus}} \cup {[id |-> "b3"]}

\* mutant: a booking created without a status is stored as confirmed
createBooking_DefaultConfirmed(booking) ==
    /\ \E n \in 1..MaxNewBookings :
         /\ NewBookingId(n) \notin DOMAIN bookings
         /\ \A m \in 1..(n - 1) : NewBookingId(m) \in DOMAIN bookings
         /\ LET id == NewBookingId(n)
                newBooking ==
                    Spread(booking,
                           [id |-> id,
                            status |-> IF "status" \in DOMAIN booking
                                       THEN booking.status ELSE "confirmed",
                            idVerified |-> IF "idVerified" \in DOMAIN booking
                                           THEN booking.idVerified ELSE FALSE,
                            idImageUrl |-> IF "idImageUrl" \in DOMAIN booking
                                           THEN booking.idImageUrl ELSE "null"])
            IN /\ bookings' = MapSet(bookings, id, newBooking)
               /\ ret' = [op |-> "createBooking", value |-> newBooking]
    /\ UNCHANGED <<vehicles, today>>

createBooking(booking) ==
    /\ \E n \in 1..MaxNewBookings :
         /\ NewBookingId(n) \notin DOMAIN bookings
         /\ \A m \in 1..(n - 1) : NewBookingId(m) \in DOMAIN bookings
         /\ LET id == NewBookingId(n)
                newBooking ==
                    Spread(booking,
                           [id |-> id,
                            status |-> IF "status" \in DOMAIN booking
                                       THEN booking.status ELSE "pending",
                            idVerified |-> IF "idVerified" \in DOMAIN booking
                                           THEN booking.idVerified ELSE FALSE,
                            idImageUrl |-> IF "idImageUrl" \in DOMAIN booking
                                           THEN booking.idImageUrl ELSE "null"])
            IN /\ bookings' = MapSet(bookings, id, newBooking)
               /\ ret' = [op |-> "createBooking", value |-> newBooking]
    /\ UNCHANGED <<vehicles, today>>

\* mutant: an update also resets idVerified
updateBooking_ResetsVerification(id, updates) ==
    /\ IF id \notin DOMAIN bookings
       THEN /\ ret' = [op |-> "updateBooking", id |-> id, value |-> Undefined]
            /\ UNCHANGED bookings
       ELSE LET updated == Spread(Spread(bookings[id], updates),
                                  [idVerified |-> FALSE]) IN
            /\ bookings' = MapSet(bookings, id, updated)
            /\ ret' = [op |-> "updateBooking", id |-> id, value |-> updated]
    /\ UNCHANGED <<vehicles, today>>

updateBooking(id, updates) ==
    /\ IF id \notin DOMAIN bookings
       THEN /\ ret' = [op |-> "updateBooking", id |-> id, value |-> Undefined]
            /\ UNCHANGED bookings
       ELSE LET updated == Spread(bookings[id], updates) IN
            /\ bookings' = MapSet(bookings, id, updated)
            /\ ret' = [op |-> "updateBooking", id |-> id, value |-> updated]
    /\ UNCHANGED <<vehicles, today>>

\* ---- the stats aggregator ----

\* bookings.reduce((sum, b) => sum + b.totalPrice, 0) over the entries S
RECURSIVE sumTotalPrice(_, _)
sumTotalPrice(bk, S) ==
    IF S = {} THEN 0
    ELSE LET k == CHOOSE x \in S : TRUE IN
         bk[k].totalPrice + sumTotalPrice(bk, S \ {k})

\* mutant: a booking is no longer counted on its last day
activeBookings_EndExclusive(bk, t) ==
    LET todayStr == format(t) IN
    {k \in DOMAIN bk :
        /\ ~(bk[k].status = "cancelled" \/ bk[k].status = "completed")
        /\ parseISO(bk[k].startDate) <= parseISO(todayStr)
        /\ parseISO(todayStr) < parseISO(bk[k].endDate)}

\* the entries the first filter of getStats keeps
activeBookings(bk, t) ==
    LET todayStr == format(t) IN
    {k \in DOMAIN bk :
        /\ ~(bk[k].status = "cancelled" \/ bk[k].status = "completed")
        /\ isWithinInterval(parseISO(todayStr),
                            [start |-> parseISO(bk[k].startDate),
                             end |-> parseISO(bk[k].endDate)])}

\* mutant: the month of endDate is not looked at
monthlyCompletedBookings_AnyMonth(bk, t) ==
    {k \in DOMAIN bk : bk[k].status = "completed"}

\* the entries the second filter of getStats keeps
monthlyCompletedBookings(bk, t) ==
    {k \in DOMAIN bk :
        /\ bk[k].status = "completed"
        /\ isWithinInterval(parseISO(bk[k].endDate),
                            [start |-> startOfMonth(t), end |-> endOfMonth(t)])}

\* mutant: totalCars leaves out the vehicles in maintenance
getStats_TotalCarsNotInMaintenance ==
    /\ bookings' = updateExpiredBookings(bookings, today)
    /\ ret' = [op |-> "getStats",
               value |-> [totalCars |->
                              Cardinality({v \in DOMAIN vehicles :
                                              vehicles[v].status # "maintenance"}),
                          rentedToday |-> Cardinality(activeBookings(bookings', today)),
                          revenueToday |->
                              sumTotalPrice(bookings', activeBookings(bookings', today)),
                          monthlyRevenue |->
                              sumTotalPrice(bookings',
                                            monthlyCompletedBookings(bookings', today))]]
    /\ UNCHANGED <<vehicles, today>>

\* mutant: revenueToday is summed over every booking whose interval contains
\* today, whatever its status
getStats_RevenueAnyStatus ==
    /\ bookings' = updateExpiredBookings(bookings, today)
    /\ ret' = [op |-> "getStats",
               value |-> [totalCars |-> Cardinality(DOMAIN vehicles),
                          rentedToday |-> Cardinality(activeBookings(bookings', today)),
                          revenueToday |->
                              sumTotalPrice(bookings',
                                  {k \in DOMAIN bookings' :
                                      isWithinInterval(today,
                                          [start |-> parseISO(bookings'[k].startDate),
                                           end |-> parseISO(bookings'[k].endDate)])}),
                          monthlyRevenue |->
                              sumTotalPrice(bookings',
                                            monthlyCompletedBookings(bookings', today))]]
    /\ UNCHANGED <<vehicles, today>>

getStats ==
    /\ bookings' = updateExpiredBookings(bookings, today)
    /\ ret' = [op |-> "getStats",
               value |-> [totalCars |-> Cardinality(DOMAIN vehicles),
                          rentedToday |-> Cardinality(activeBookings(bookings', today)),
                          revenueToday |->
                              sumTotalPrice(bookings', activeBookings(bookings', today)),
                          monthlyRevenue |->
                              sumTotalPrice(bookings',
                                            monthlyCompletedBookings(bookings', today))]]
    /\ UNCHANGED <<vehicles, today>>

\* ---- the clock ----

\* midnight passes
Tick ==
    /\ today < MaxToday
    /\ today' = today + 1
    /\ ret' = NoRet
    /\ UNCHANGED <<vehicles, bookings>>

Next ==
    \/ \E q \in QueryArgs : getVehicles(q[1], q[2])
    \/ \E id \in VehicleIdArgs : getVehicle(id)
    \/ \E v \in InsertVehicles : createVehicle(v)
    \/ \E id \in VehicleIdArgs, u \in VehicleUpdates : updateVehicle(id, u)
    \/ \E id \in VehicleDeleteArgs : deleteVehicle(id)
    \/ getBookings
    \/ \E id \in BookingIdArgs : getBooking(id)
    \/ \E id \in VehicleIdArgs : getBookingsByVehicle(id)
    \/ \E b \in InsertBookings : createBooking(b)
    \/ \E id \in BookingIdArgs, u \in BookingUpdates : updateBooking(id, u)
    \/ getStats
    \/ Tick

Spec == Init /\ [][Next]_vars

\* ---- the aggregator over any store ----

\* the store holds any part of the mock data, from the empty maps the
\* constructor starts with to all of it, on any day of the modelled period
InitStats ==
    /\ today \in Today0..MaxToday
    /\ \E S \in SUBSET DOMAIN mockVehicles :
          vehicles = [id \in S |-> mockVehicles[id]]
    /\ \E S \in SUBSET DOMAIN mockBookings(Today0) :
          bookings = [id \in S |-> mockBookings(Today0)[id]]
    /\ ret = NoRet

NextStats ==
    \/ \E v \in InsertVehicles : createVehicle(v)
    \/ \E id \in VehicleDeleteArgs : deleteVehicle(id)
    \/ getStats
    \/ Tick

SpecStats == InitStats /\ [][NextStats]_vars

\* ---- the customer roll-up (client data layer) ----

UpperCaseLetters == "ABCDEFGHIJKLMNOPQRSTUVWXYZ"
LowerCaseLetters == "abcdefghijklmnopqrstuvwxyz"

\* String.prototype.toLowerCase, one character
lowerOf(c) ==
    IF \E i \in 1..Len(UpperCaseLetters) : SubSeq(UpperCaseLetters, i, i) = c
    THEN LET i == CHOOSE j \in 1..Len(UpperCaseLetters) :
                      SubSeq(UpperCaseLetters, j, j) = c
         IN SubSeq(LowerCaseLetters, i, i)
    ELSE c

\* String.prototype.toLowerCase
RECURSIVE toLowerCase(_)
toLowerCase(s) ==
    IF Len(s) = 0 THEN ""
    ELSE lowerOf(SubSeq(s, 1, 1)) \o toLowerCase(SubSeq(s, 2, Len(s)))

\* String.prototype.trim: white space is taken off both ends
RECURSIVE trimStart(_)
trimStart(s) ==
    IF Len(s) > 0 /\ SubSeq(s, 1, 1) = " "
    THEN trimStart(SubSeq(s, 2, Len(s))) ELSE s

RECURSIVE trimEnd(_)
trimEnd(s) ==
    IF Len(s) > 0 /\ SubSeq(s, Len(s), Len(s)) = " "
    THEN trimEnd(SubSeq(s, 1, Len(s) - 1)) ELSE s

trim(s) == trimEnd(trimStart(s))

\* Array.prototype.sort (stable) of a sequence of <<key, element>> pairs, by
\* ascending key
RECURSIVE insertStable(_, _)
insertStable(sorted, p) ==
    IF sorted = <<>> THEN <<p>>
    ELSE IF Head(sorted)[1] <= p[1]
         THEN <<Head(sorted)>> \o insertStable(Tail(sorted), p)
         ELSE <<p>> \o sorted

RECURSIVE stableSort(_)
stableSort(pairs) ==
    IF pairs = <<>> THEN <<>>
    ELSE insertStable(stableSort(SubSeq(pairs, 1, Len(pairs) - 1)),
                      pairs[Len(pairs)])

\* Array.from(this.bookings.values()): the records in insertion order
RECURSIVE bookingValuesFrom(_, _)
bookingValuesFrom(bk, i) ==
    IF i > Len(bookingKeyOrder) THEN <<>>
    ELSE (IF bookingKeyOrder[i] \in DOMAIN bk
          THEN <<bk[bookingKeyOrder[i]]>> ELSE <<>>)
         \o bookingValuesFrom(bk, i + 1)

bookingValues(bk) == bookingValuesFrom(bk, 1)

\* mutant: the bookings are grouped by the guest name as typed
customerKey_AsTyped(guestName) == guestName

\* the key a booking is grouped under
customerKey(guestName) == toLowerCase(trim(guestName))

\* the forEach callback of getCustomers: customerMap, a sequence of
\* <<key, Customer>> in insertion order, after one more booking
customerMapAfter(customerMap, booking) ==
    IF booking.status # "confirmed" /\ booking.status # "completed"
    THEN customerMap
    ELSE LET key == customerKey(booking.guestName) IN
         IF \A i \in 1..Len(customerMap) : customerMap[i][1] # key
         THEN Append(customerMap,
                     <<key, [name |-> booking.guestName,
                             phone |-> booking.guestPhone,
                             idImageUrl |-> booking.idImageUrl,
                             totalBookings |-> 1,
                             lastBooking |-> booking.startDate]>>)
         ELSE [i \in 1..Len(customerMap) |->
                  IF customerMap[i][1] # key THEN customerMap[i]
                  ELSE LET existing == customerMap[i][2] IN
                       <<key, [name |-> booking.guestName,
                               phone |-> booking.guestPhone,
                               idImageUrl |->
                                   IF booking.idImageUrl # "null"
                                   THEN booking.idImageUrl
                                   ELSE existing.idImageUrl,
                               totalBookings |-> existing.totalBookings + 1,
                               lastBooking |-> booking.startDate]>>]

RECURSIVE customerMapFrom(_, _, _)
customerMapFrom(sortedBookings, i, customerMap) ==
    IF i > Len(sortedBookings) THEN customerMap
    ELSE customerMapFrom(sortedBookings, i + 1,
                         customerMapAfter(customerMap, sortedBookings[i]))

\* getCustomers over the array getBookings answered with
getCustomersResult(bookingList) ==
    LET sortedBookings ==
            [i \in 1..Len(bookingList) |->
                stableSort([j \in 1..Len(bookingList) |->
                               <<parseISO(bookingList[j].startDate),
                                 bookingList[j]>>])[i][2]]
        customerMap == customerMapFrom(sortedBookings, 1, <<>>)
        byLastBooking ==
            stableSort([i \in 1..Len(customerMap) |->
                           <<0 - parseISO(customerMap[i][2].lastBooking),
                             customerMap[i][2]>>])
    IN [i \in 1..Len(customerMap) |-> byLastBooking[i][2]]

\* getCustomers on the server path: GET /api/bookings, then the roll-up
getCustomers ==
    /\ bookings' = updateExpiredBookings(bookings, today)
    /\ ret' = [op |-> "getCustomers",
               value |-> getCustomersResult(bookingValues(bookings'))]
    /\ UNCHANGED <<vehicles, today>>

\* ---- the bulk customer update (server path) ----

\* the error of a call of a method the object does not have
TypeError == [error |-> "TypeError"]

\* the (oldName, newDetails) pairs the customer dialog submits
UpdateCustomerArgs ==
    {<<"Maria Santos", [name |-> "Maria Reyes", phone |-> "+63 956 789 0123",
                        idImageUrl |-> "null"]>>}

\* updateCustomer on the server path: POST /api/customers/update, whose
\* handler calls storage.updateCustomer, a method MemStorage does not have
updateCustomer(oldName, newDetails) ==
    /\ ret' = [op |-> "updateCustomer", oldName |-> oldName,
               newDetails |-> newDetails, value |-> TypeError]
    /\ UNCHANGED <<vehicles, bookings, today>>

\* ---- the customer operations over any guest names and statuses ----

\* the guest names bookings are made under
CustomerNames == {"Juan Dela Cruz", "juan dela cruz ", "Maria Santos"}

CustomerStatuses == {"pending", "confirmed", "completed", "cancelled", "archived"}

\* the mock bookings, each under any of the names and in any of the statuses
InitCustomers ==
    /\ today = Today0
    /\ vehicles = mockVehicles
    /\ \E names \in [DOMAIN mockBookings(Today0) -> CustomerNames],
          statuses \in [DOMAIN mockBookings(Today0) -> CustomerStatuses] :
          bookings = [k \in DOMAIN mockBookings(Today0) |->
                         Spread(mockBookings(Today0)[k],
                                [guestName |-> names[k], status |-> statuses[k]])]
    /\ ret = NoRet

NextCustomers ==
    \/ getCustomers
    \/ \E a \in UpdateCustomerArgs : updateCustomer(a[1], a[2])
    \/ Tick

SpecCustomers == InitCustomers /\ [][NextCustomers]_vars

\* ---- a caller that writes to what a lookup returned ----

\* the fields a caller assigns on the record it was handed
BookingFieldWrites == {[guestPhone |-> "+63 900 000 0000"]}
VehicleFieldWrites == {[dailyRate |-> 1]}

\* getBooking returns this.bookings.get(id), the stored object itself: an
\* assignment to a field of the returned record is an assignment to the
\* stored record
writeReturnedBooking(fields) ==
    /\ ret.op = "getBooking"
    /\ ret.value # Undefined
    /\ LET written == Spread(ret.value, fields) IN
       /\ bookings' = MapSet(bookings, ret.id, written)
       /\ ret' = [op |-> "writeReturnedBooking", id |-> ret.id, value |-> written]
    /\ UNCHANGED <<vehicles, today>>

\* getVehicle returns this.vehicles.get(id), the stored object itself
writeReturnedVehicle(fields) ==
    /\ ret.op = "getVehicle"
    /\ ret.value # Undefined
    /\ LET written == Spread(ret.value, fields) IN
       /\ vehicles' = MapSet(vehicles, ret.id, written)
       /\ ret' = [op |-> "writeReturnedVehicle", id |-> ret.id, value |-> written]
    /\ UNCHANGED <<bookings, today>>

NextCaller ==
    \/ \E id \in BookingIdArgs : getBooking(id)
    \/ \E id \in VehicleIdArgs : getVehicle(id)
    \/ \E f \in BookingFieldWrites : writeReturnedBooking(f)
    \/ \E f \in VehicleFieldWrites : writeReturnedVehicle(f)
    \/ \E id \in BookingIdArgs, s \in BookingStatuses :
          updateBooking(id, [status |-> s])
    \/ getBookings
    \/ Tick

SpecCaller == Init /\ [][NextCaller]_vars

\* ======================================================================
\* Properties
\* ======================================================================

\* the response just returned is that of listVehicles(start, end) with a range
IsRangedQuery ==
    ret.op = "getVehicles" /\ ret.start # Undefined /\ ret.end # Undefined

\* closed-interval overlap of a booking with [start, end], on date strings
ClosedOverlap(b, start, end) ==
    ~StrLess(end, b.startDate) /\ ~StrLess(b.endDate, start)

\* today lies in the booking's [startDate, endDate], both ends inclusive
ContainsToday(b) ==
    ~StrLess(format(today), b.startDate) /\ ~StrLess(b.endDate, format(today))

\* the bookings of one vehicle
BookingsOf(id) == {k \in DOMAIN bookings : bookings[k].vehicleId = id}

RECURSIVE SumOver(_, _)
SumOver(f, S) ==
    IF S = {} THEN 0
    ELSE LET k == CHOOSE x \in S : TRUE IN f[k] + SumOver(f, S \ {k})

PriceOf == [k \in DOMAIN bookings |-> bookings[k].totalPrice]

\* a step of one of the four reads that run the sweep (every operation
\* records its name in the response)
ReadStep ==
    ret'.op \in {"getVehicles", "getBookings", "getBookingsByVehicle", "getStats"}

\* C1: for a vehicle not in maintenance, listVehicles(start, end) reports
\* "booked" exactly when one of its pending, pending_id_missing, confirmed or
\* completed bookings overlaps [start, end] as a closed interval (touching
\* endpoints conflict), and "available" otherwise.
C1_BookedIffClosedOverlap ==
    IsRangedQuery =>
        \A id \in DOMAIN vehicles :
            vehicles[id].status # "maintenance" =>
                ret.value[id].status =
                    IF \E k \in BookingsOf(id) :
                          /\ bookings[k].status \in
                                {"pending", "pending_id_missing", "confirmed", "completed"}
                          /\ ClosedOverlap(bookings[k], ret.start, ret.end)
                    THEN "booked" ELSE "available"

\* C2: removing every cancelled and every archived booking from the store
\* leaves the result of listVehicles unchanged, for every range.
WithoutInactive(bk) ==
    [k \in {x \in DOMAIN bk : bk[x].status \notin {"cancelled", "archived"}} |-> bk[k]]

C2_InactiveBookingsIgnored ==
    \A q \in QueryArgs :
        getVehiclesResult(vehicles, bookings, q[1], q[2]) =
            getVehiclesResult(vehicles, WithoutInactive(bookings), q[1], q[2])

\* C3: a vehicle reported "booked" carries nextAvailableDate = one day after
\* the latest endDate among its bookings that are neither cancelled nor
\* archived; a vehicle reported "available" or "maintenance" carries none.
C3_NextAvailableDate ==
    IsRangedQuery =>
        \A id \in DOMAIN ret.value :
            LET view == ret.value[id]
                live == {k \in BookingsOf(id) :
                            bookings[k].status \notin {"cancelled", "archived"}}
            IN IF view.status = "booked"
               THEN /\ live # {}
                    /\ "nextAvailableDate" \in DOMAIN view
                    /\ \E k \in live :
                          /\ \A j \in live :
                                ~StrLess(bookings[k].endDate, bookings[j].endDate)
                          /\ view.nextAvailableDate =
                                format(parseISO(bookings[k].endDate) + 1)
               ELSE "nextAvailableDate" \notin DOMAIN view

C5_SweepOnRead ==
    [][ReadStep =>
          /\ \A k \in DOMAIN bookings' :
                ~(/\ bookings'[k].status = "confirmed"
                  /\ StrLess(bookings'[k].endDate, format(today')))
          /\ \A k \in DOMAIN bookings :
                (bookings[k].status = "confirmed" /\ bookings[k].endDate = format(today))
                    => (k \in DOMAIN bookings' /\ bookings'[k].status = "confirmed")]_vars

\* C6: the sweep changes only the status of the bookings that are confirmed
\* with endDate < today; every other booking, every other field and every
\* vehicle is as before the read.
C6_SweepFrame ==
    [][ReadStep =>
          /\ vehicles' = vehicles
          /\ DOMAIN bookings' = DOMAIN bookings
          /\ \A k \in DOMAIN bookings :
                IF /\ bookings[k].status = "confirmed"
                   /\ StrLess(bookings[k].endDate, format(today))
                THEN [bookings'[k] EXCEPT !.status = "confirmed"] = bookings[k]
                ELSE bookings'[k] = bookings[k]]_vars

\* C7: every booking that is pending, pending_id_missing or confirmed and has
\* startDate <= today <= endDate (both ends inclusive) is counted in
\* rentedToday.  (That nothing else is counted is C8.)
C7_RentedTodayInclusive ==
    ret.op = "getStats" =>
        LET due == {k \in DOMAIN bookings :
                       /\ bookings[k].status \in
                             {"pending", "pending_id_missing", "confirmed"}
                       /\ ContainsToday(bookings[k])}
        IN /\ due \subseteq activeBookings(bookings, today)
           /\ ret.value.rentedToday >= Cardinality(due)

\* getStats answered while one counted booking starts today and another
\* counted booking ends today
C7_Witness ==
    /\ ret.op = "getStats"
    /\ ret.value.rentedToday >= 2
    /\ \E k \in DOMAIN bookings :
          /\ bookings[k].status \in {"pending", "pending_id_missing", "confirmed"}
          /\ bookings[k].startDate = format(today)
          /\ StrLess(format(today), bookings[k].endDate)
    /\ \E k \in DOMAIN bookings :
          /\ bookings[k].status \in {"pending", "pending_id_missing", "confirmed"}
          /\ bookings[k].endDate = format(today)
          /\ StrLess(bookings[k].startDate, format(today))

\* C8: a cancelled, completed or archived booking is never counted in
\* rentedToday and never adds to revenueToday, and a cancelled or archived
\* booking never adds to monthlyRevenue: the three figures are what they
\* would be with those bookings left out.
C8_InactiveNotCounted ==
    ret.op = "getStats" =>
        LET counted == {k \in DOMAIN bookings :
                           /\ bookings[k].status \notin
                                 {"cancelled", "completed", "archived"}
                           /\ ContainsToday(bookings[k])}
            monthly == monthlyCompletedBookings(WithoutInactive(bookings), today)
        IN /\ ret.value.rentedToday = Cardinality(counted)
           /\ ret.value.revenueToday = SumOver(PriceOf, counted)
           /\ ret.value.monthlyRevenue = SumOver(PriceOf, monthly)

\* C9: revenueToday is the sum of totalPrice over exactly the bookings that
\* rentedToday counts (those not cancelled and not completed whose interval
\* contains today), so rentedToday = 0 gives revenueToday = 0.
C9_RevenueOverRentedSet ==
    ret.op = "getStats" =>
        LET counted == {k \in DOMAIN bookings :
                           /\ bookings[k].status \notin {"cancelled", "completed"}
                           /\ ContainsToday(bookings[k])}
        IN /\ ret.value.rentedToday = Cardinality(counted)
           /\ ret.value.revenueToday = SumOver(PriceOf, counted)
           /\ (ret.value.rentedToday = 0 => ret.value.revenueToday = 0)

\* getStats answered while two bookings are counted and a third, whose
\* interval also contains today, is not
C9_Witness ==
    /\ ret.op = "getStats"
    /\ ret.value.rentedToday = 2
    /\ ret.value.revenueToday > 0
    /\ \E k \in DOMAIN bookings :
          bookings[k].status \in {"cancelled", "completed"} /\ ContainsToday(bookings[k])

\* C10: monthlyRevenue is the sum of totalPrice over exactly the bookings
\* that are completed after the sweep and whose endDate lies in the calendar
\* month of today.
C10_MonthlyRevenue ==
    ret.op = "getStats" =>
        ret.value.monthlyRevenue =
            SumOver(PriceOf,
                    {k \in DOMAIN bookings :
                        /\ bookings[k].status = "completed"
                        /\ bookings[k].endDate[1] = format(today)[1]})

\* getStats answered while one completed booking ended in the month of today
\* and is counted, another completed booking ended the month before, and a
\* confirmed booking ends in the month of today
C10_Witness ==
    /\ ret.op = "getStats"
    /\ ret.value.monthlyRevenue > 0
    /\ \E k \in DOMAIN bookings :
          /\ bookings[k].status = "completed"
          /\ bookings[k].endDate[1] < format(today)[1]
    /\ \E k \in DOMAIN bookings :
          /\ bookings[k].status = "confirmed"
          /\ bookings[k].endDate[1] = format(today)[1]

\* ---- C11 ----

\* what the entry under key k adds to the three figures getStats has just
\* returned: the figure minus the same figure over the store without k
StatsShareOf(k) ==
    LET rest == MapDelete(bookings', k) IN
    [rentedToday |-> ret'.value.rentedToday
                         - Cardinality(activeBookings(rest, today)),
     revenueToday |-> ret'.value.revenueToday
                         - sumTotalPrice(rest, activeBookings(rest, today)),
     monthlyRevenue |-> ret'.value.monthlyRevenue
                         - sumTotalPrice(rest, monthlyCompletedBookings(rest, today))]

\* C11: at every getStats call, a booking that is stored as confirmed
\* contributes by its dates alone: on a day inside [startDate, endDate] it is
\* counted once in rentedToday, adds its totalPrice to revenueToday and
\* nothing to monthlyRevenue; on a day after endDate it is not counted, adds
\* nothing to revenueToday, and adds its totalPrice to monthlyRevenue exactly
\* when today is in the calendar month of endDate.
C11_ConfirmedBookingOverTime ==
    [][ret'.op = "getStats" =>
          \A k \in DOMAIN bookings :
              bookings[k].status = "confirmed" =>
                  LET b == bookings[k]
                      share == StatsShareOf(k)
                  IN /\ ContainsToday(b) =>
                           /\ share.rentedToday = 1
                           /\ share.revenueToday = b.totalPrice
                           /\ share.monthlyRevenue = 0
                     /\ StrLess(b.endDate, format(today)) =>
                           /\ share.rentedToday = 0
                           /\ share.revenueToday = 0
                           /\ share.monthlyRevenue =
                                  (IF b.endDate[1] = format(today)[1]
                                   THEN b.totalPrice ELSE 0)]_vars

\* ---- C12 ----

\* C12: in every step, a stored booking whose status becomes "completed" was
\* "confirmed" before the step; no booking moves to "completed" from pending,
\* pending_id_missing, cancelled or archived.
C12_CompletedOnlyFromConfirmed ==
    [][\A k \in DOMAIN bookings \cap DOMAIN bookings' :
          (bookings'[k].status = "completed" /\ bookings[k].status # "completed")
              => bookings[k].status = "confirmed"]_vars

\* ---- C13 ----

TerminalStatuses == {"completed", "cancelled", "archived"}

\* C13: in every step, a stored booking that is completed, cancelled or
\* archived does not become pending, pending_id_missing or confirmed.
C13_TerminalStatusesStay ==
    [][\A k \in DOMAIN bookings \cap DOMAIN bookings' :
          bookings[k].status \in TerminalStatuses
              => bookings'[k].status \notin
                     {"pending", "pending_id_missing", "confirmed"}]_vars

\* ---- C14 ----

\* the answer of a call that was rejected
ValidationError == [error |-> "ValidationError"]

\* a patch that sets an unknown status or a negative price
InvalidBookingUpdate(u) ==
    \/ "status" \in DOMAIN u /\ u.status \notin BookingStatuses
    \/ "totalPrice" \in DOMAIN u /\ u.totalPrice < 0

InvalidVehicleUpdate(u) ==
    \/ "status" \in DOMAIN u /\ u.status \notin {"available", "maintenance", "booked"}
    \/ "dailyRate" \in DOMAIN u /\ u.dailyRate < 0

\* C14: a call of updateBooking or updateVehicle on a stored record with a
\* patch that sets an unknown status or a negative price is answered with a
\* validation error and leaves both collections as they were.
C14_InvalidUpdateRejected ==
    [][/\ \A id \in DOMAIN bookings, u \in BookingUpdates :
             (InvalidBookingUpdate(u) /\ updateBooking(id, u))
                 => /\ ret'.value = ValidationError
                    /\ bookings' = bookings
                    /\ vehicles' = vehicles
       /\ \A vid \in DOMAIN vehicles, vu \in VehicleUpdates :
             (InvalidVehicleUpdate(vu) /\ updateVehicle(vid, vu))
                 => /\ ret'.value = ValidationError
                    /\ bookings' = bookings
                    /\ vehicles' = vehicles]_vars

\* ---- C15 ----

\* C15: updateVehicle, updateBooking and deleteVehicle called with an id that
\* is not a key of the collection answer not-found (undefined, undefined and
\* false) and leave both collections exactly as they were; in particular no
\* record is created.
C15_UnknownIdNotFound ==
    [][/\ (ret'.op = "updateVehicle" /\ ret'.id \notin DOMAIN vehicles)
             => /\ ret'.value = Undefined
                /\ vehicles' = vehicles /\ bookings' = bookings
       /\ (ret'.op = "updateBooking" /\ ret'.id \notin DOMAIN bookings)
             => /\ ret'.value = Undefined
                /\ vehicles' = vehicles /\ bookings' = bookings
       /\ (ret'.op = "deleteVehicle" /\ ret'.id \notin DOMAIN vehicles)
             => /\ ret'.value = FALSE
                /\ vehicles' = vehicles /\ bookings' = bookings]_vars

\* updateVehicle has just answered a call with an id that is not stored
C15_Witness ==
    /\ ret.op = "updateVehicle"
    /\ ret.id \notin DOMAIN vehicles
    /\ ret.value = Undefined

\* ---- C16 ----

\* C16: deleteVehicle(id) removes the vehicle stored under id and no other,
\* leaves every other vehicle and every booking (those of the deleted vehicle
\* included) exactly as stored, and answers true exactly when the vehicle
\* was stored.
C16_DeleteVehicleFrame ==
    [][ret'.op = "deleteVehicle" =>
          /\ DOMAIN vehicles' = DOMAIN vehicles \ {ret'.id}
          /\ \A v \in DOMAIN vehicles' : vehicles'[v] = vehicles[v]
          /\ bookings' = bookings
          /\ ret'.value = (ret'.id \in DOMAIN vehicles)]_vars

\* a stored vehicle has just been deleted while a booking refers to it
C16_Witness ==
    /\ ret.op = "deleteVehicle"
    /\ ret.value = TRUE
    /\ ret.id \notin DOMAIN vehicles
    /\ \E k \in DOMAIN bookings : bookings[k].vehicleId = ret.id

\* ---- C17 ----

\* C17: in every state, the stored status of every vehicle is "available" or
\* "maintenance"; "booked" is never stored.
C17_StoredVehicleStatus ==
    \A v \in DOMAIN vehicles : vehicles[v].status \in {"available", "maintenance"}

\* ---- C18 ----

\* the response just returned is that of listVehicles() without a range
IsUnscopedQuery ==
    ret.op = "getVehicles" /\ (ret.start = Undefined \/ ret.end = Undefined)

\* C18: a listing without a range reports every stored vehicle, with status
\* "maintenance" when its stored status is "maintenance" and "available"
\* otherwise, whatever bookings are stored.
C18_UnscopedListing ==
    IsUnscopedQuery =>
        /\ DOMAIN ret.value = DOMAIN vehicles
        /\ \A v \in DOMAIN vehicles :
              ret.value[v].status =
                  (IF vehicles[v].status = "maintenance"
                   THEN "maintenance" ELSE "available")

\* a listing without a range has answered while one vehicle is in
\* maintenance and another has a confirmed booking that contains today
C18_Witness ==
    /\ IsUnscopedQuery
    /\ \E v \in DOMAIN vehicles : vehicles[v].status = "maintenance"
    /\ \E v \in DOMAIN vehicles :
          /\ vehicles[v].status # "maintenance"
          /\ \E k \in BookingsOf(v) :
                bookings[k].status = "confirmed" /\ ContainsToday(bookings[k])

\* ---- C19 ----

\* C19: for a fixed today the sweep is idempotent: in every state, running
\* the sweep a second time on the store the first run left changes nothing,
\* so a second read returns the same bookings as the first.
C19_SweepIdempotent ==
    LET once == updateExpiredBookings(bookings, today) IN
    updateExpiredBookings(once, today) = once

\* a store in which the first run of the sweep has two bookings to complete
C19_Witness ==
    /\ updateExpiredBookings(bookings, today) # bookings
    /\ Cardinality({k \in DOMAIN bookings :
                       /\ bookings[k].status = "confirmed"
                       /\ StrLess(bookings[k].endDate, format(today))}) >= 2

\* ---- C20 ----

\* C20: whenever getStats answers, totalCars is the number of stored
\* vehicles, those in maintenance included; and when no booking is stored,
\* rentedToday, revenueToday and monthlyRevenue are all 0.
C20_TotalCarsAndEmptyStore ==
    ret.op = "getStats" =>
        /\ ret.value.totalCars = Cardinality(DOMAIN vehicles)
        /\ DOMAIN bookings = {} =>
              /\ ret.value.rentedToday = 0
              /\ ret.value.revenueToday = 0
              /\ ret.value.monthlyRevenue = 0

\* getStats has answered on a store with no booking and with vehicles, one
\* of them in maintenance
C20_Witness ==
    /\ ret.op = "getStats"
    /\ DOMAIN bookings = {}
    /\ ret.value.totalCars >= 2
    /\ \E v \in DOMAIN vehicles : vehicles[v].status = "maintenance"

\* ---- C21 ----

\* a guest name trimmed and lower-cased
NormalizedName(name) == toLowerCase(trim(name))

\* the stored bookings the roll-up counts
CountedBookings ==
    {k \in DOMAIN bookings : bookings[k].status \in {"confirmed", "completed"}}

\* C21: the roll-up getCustomers answers with has exactly one entry for each
\* distinct normalized guest name among the confirmed and completed bookings
\* and no other entry, and the entry's totalBookings is the number of
\* confirmed or completed bookings with that normalized name.
C21_CustomerRollUp ==
    ret.op = "getCustomers" =>
        LET names == {NormalizedName(bookings[k].guestName) : k \in CountedBookings}
        IN /\ Len(ret.value) = Cardinality(names)
           /\ \A n \in names :
                 \E i \in 1..Len(ret.value) :
                     /\ NormalizedName(ret.value[i].name) = n
                     /\ ret.value[i].totalBookings =
                            Cardinality({k \in CountedBookings :
                                NormalizedName(bookings[k].guestName) = n})

\* the roll-up has answered on a store where two counted bookings carry the
\* same name in different casing and spacing, and a third booking is in a
\* status that is not counted
C21_Witness ==
    /\ ret.op = "getCustomers"
    /\ Len(ret.value) = 1
    /\ ret.value[1].totalBookings = 2
    /\ \E j, k \in CountedBookings :
          /\ bookings[j].guestName # bookings[k].guestName
          /\ NormalizedName(bookings[j].guestName) =
                 NormalizedName(bookings[k].guestName)
    /\ \E k \in DOMAIN bookings : bookings[k].status \in {"pending", "cancelled", "archived"}

\* ---- C22 ----

\* C22: every call of updateCustomer(oldName, newDetails) succeeds, and
\* after it every booking whose guestName was oldName carries the new name,
\* phone and idImageUrl with its other fields unchanged, and every other
\* booking and every vehicle is as it was.
C22_BulkCustomerUpdate ==
    [][ret'.op = "updateCustomer" =>
          /\ ret'.value = [success |-> TRUE]
          /\ DOMAIN bookings' = DOMAIN bookings
          /\ \A k \in DOMAIN bookings :
                bookings'[k] =
                    (IF bookings[k].guestName = ret'.oldName
                     THEN Spread(bookings[k],
                                 [guestName |-> ret'.newDetails.name,
                                  guestPhone |-> ret'.newDetails.phone,
                                  idImageUrl |-> ret'.newDetails.idImageUrl])
                     ELSE bookings[k])
          /\ vehicles' = vehicles]_vars

\* ---- C23 ----

\* the value of field f of the body, or the default when the body has no f
FieldOr(body, f, default) == IF f \in DOMAIN body THEN body[f] ELSE default

\* C23: createBooking and createVehicle add exactly one record, under a key
\* that was not in the collection and that no stored record has as its id,
\* leave every record already stored and the other collection unchanged,
\* keep the fields of the body, and fill in the defaults: status "pending",
\* idVerified false and idImageUrl null for a booking, status "available"
\* for a vehicle.
C23_CreateAddsOneWithDefaults ==
    [][/\ ret'.op = "createBooking" =>
             \A b \in InsertBookings :
                 createBooking(b) =>
                     LET new == DOMAIN bookings' \ DOMAIN bookings IN
                     /\ Cardinality(new) = 1
                     /\ \A k \in DOMAIN bookings : bookings'[k] = bookings[k]
                     /\ vehicles' = vehicles
                     /\ \A k \in new :
                           /\ \A j \in DOMAIN bookings : bookings[j].id # k
                           /\ bookings'[k] = ret'.value
                           /\ bookings'[k].id = k
                           /\ \A f \in DOMAIN b : bookings'[k][f] = b[f]
                           /\ bookings'[k].status = FieldOr(b, "status", "pending")
                           /\ bookings'[k].idVerified =
                                  FieldOr(b, "idVerified", FALSE)
                           /\ bookings'[k].idImageUrl =
                                  FieldOr(b, "idImageUrl", "null")
       /\ ret'.op = "createVehicle" =>
             \A v \in InsertVehicles :
                 createVehicle(v) =>
                     LET new == DOMAIN vehicles' \ DOMAIN vehicles IN
                     /\ Cardinality(new) = 1
                     /\ \A k \in DOMAIN vehicles : vehicles'[k] = vehicles[k]
                     /\ bookings' = bookings
                     /\ \A k \in new :
                           /\ \A j \in DOMAIN vehicles : vehicles[j].id # k
                           /\ vehicles'[k] = ret'.value
                           /\ vehicles'[k].id = k
                           /\ \A f \in DOMAIN v : vehicles'[k][f] = v[f]
                           /\ vehicles'[k].status =
                                  FieldOr(v, "status", "available")]_vars

\* a booking has just been created from a body without status, idVerified
\* and idImageUrl, next to the bookings stored before
C23_Witness ==
    /\ ret.op = "createBooking"
    /\ ret.value.id \in DOMAIN bookings
    /\ bookings[ret.value.id] = ret.value
    /\ ret.value.status = "pending"
    /\ ret.value.idVerified = FALSE
    /\ ret.value.idImageUrl = "null"
    /\ Cardinality(DOMAIN bookings) > 1

\* ---- C24 ----

\* C24: what the store returns is a copy: a step in which a caller assigns a
\* field of a record it was handed by getBooking or getVehicle changes no
\* stored booking and no stored vehicle.
C24_ReturnedValuesAreCopies ==
    [][ret'.op \in {"writeReturnedBooking", "writeReturnedVehicle"} =>
          bookings' = bookings /\ vehicles' = vehicles]_vars

\* ---- C25 ----

\* C25: a call of listVehicles, with or without a range, leaves every stored
\* vehicle record exactly as it was: the stored status is not replaced by
\* the computed one and no nextAvailableDate is written.
C25_ListVehiclesFrame ==
    [][ret'.op = "getVehicles" => vehicles' = vehicles]_vars

\* a ranged listing has reported a vehicle as booked with a
\* nextAvailableDate, and the stored record is still available, without one
C25_Witness ==
    /\ IsRangedQuery
    /\ \E v \in DOMAIN vehicles :
          /\ ret.value[v].status = "booked"
          /\ "nextAvailableDate" \in DOMAIN ret.value[v]
          /\ vehicles[v].status = "available"
          /\ "nextAvailableDate" \notin DOMAIN vehicles[v]

\* ---- C26 ----

\* C26: the single-booking lookup runs the sweep first: the booking that
\* getBooking answers with is never confirmed with endDate < today.
C26_GetBookingSweeps ==
    (ret.op = "getBooking" /\ ret.value # Undefined) =>
        ~(ret.value.status = "confirmed"
          /\ StrLess(ret.value.endDate, format(today)))

\* ---- C27 ----

\* the record old overlaid by the fields of updates: the fields of updates
\* carry the new values and every other field keeps its value
IsOverlay(new, old, updates) ==
    /\ DOMAIN new = DOMAIN old \cup DOMAIN updates
    /\ \A f \in DOMAIN new :
          new[f] = (IF f \in DOMAIN updates THEN updates[f] ELSE old[f])

\* the record has every field of updates with the value updates gives it
Carries(rec, updates) ==
    \A f \in DOMAIN updates : f \in DOMAIN rec /\ rec[f] = updates[f]

\* C27: updateBooking and updateVehicle on a stored id replace the record
\* under that id by the old record overlaid with the updates, return it,
\* leave every other record of both collections unchanged and keep the
\* number of stored records.  (The returned record carries the updates of
\* the call; the calls it is compared with are those whose updates it
\* carries.)
C27_UpdateIsOverlay ==
    [][/\ (ret'.op = "updateBooking" /\ ret'.id \in DOMAIN bookings) =>
             /\ \E u \in BookingUpdates :
                   Carries(ret'.value, u) /\ updateBooking(ret'.id, u)
             /\ \A u \in BookingUpdates :
                   (Carries(ret'.value, u) /\ updateBooking(ret'.id, u)) =>
                       /\ DOMAIN bookings' = DOMAIN bookings
                       /\ IsOverlay(bookings'[ret'.id], bookings[ret'.id], u)
                       /\ ret'.value = bookings'[ret'.id]
                       /\ \A k \in DOMAIN bookings \ {ret'.id} :
                             bookings'[k] = bookings[k]
                       /\ vehicles' = vehicles
       /\ (ret'.op = "updateVehicle" /\ ret'.id \in DOMAIN vehicles) =>
             /\ \E u \in VehicleUpdates :
                   Carries(ret'.value, u) /\ updateVehicle(ret'.id, u)
             /\ \A u \in VehicleUpdates :
                   (Carries(ret'.value, u) /\ updateVehicle(ret'.id, u)) =>
                       /\ DOMAIN vehicles' = DOMAIN vehicles
                       /\ IsOverlay(vehicles'[ret'.id], vehicles[ret'.id], u)
                       /\ ret'.value = vehicles'[ret'.id]
                       /\ \A k \in DOMAIN vehicles \ {ret'.id} :
                             vehicles'[k] = vehicles[k]
                       /\ bookings' = bookings]_vars

\* a verified booking has just been given another status, next to two other
\* bookings
C27_Witness ==
    /\ ret.op = "updateBooking"
    /\ ret.id \in DOMAIN bookings
    /\ bookings[ret.id] = ret.value
    /\ ret.value.status = "cancelled"
    /\ ret.value.idVerified = TRUE
    /\ Cardinality(DOMAIN bookings) >= 3

\* ---- C28 ----

\* C28: in every state, every vehicle and every booking is stored under its
\* own id: the record at key k has id = k.
C28_StoredUnderOwnId ==
    /\ \A k \in DOMAIN vehicles : vehicles[k].id = k
    /\ \A k \in DOMAIN bookings : bookings[k].id = k

\* ---- C29 ----

\* C29: in every state, no two bookings of the same vehicle that are both
\* neither cancelled nor archived have overlapping closed date ranges.
C29_NoDoubleBooking ==
    \A j, k \in DOMAIN bookings :
        (/\ j # k
         /\ bookings[j].vehicleId = bookings[k].vehicleId
         /\ bookings[j].status \notin {"cancelled", "archived"}
         /\ bookings[k].status \notin {"cancelled", "archived"})
            => ~ClosedOverlap(bookings[j], bookings[k].startDate, bookings[k].endDate)

\* ---- C30 ----

\* C30: when a ranged listing reports a vehicle as booked, asking again with
\* the store unchanged for the single day nextAvailableDate reports that
\* vehicle as available.
C30_NextAvailableDateIsFree ==
    IsRangedQuery =>
        \A v \in DOMAIN ret.value :
            ret.value[v].status = "booked" =>
                LET day == ret.value[v].nextAvailableDate
                    again == getVehiclesResult(vehicles,
                                 updateExpiredBookings(bookings, today), day, day)
                IN again[v].status = "available"

\* a ranged listing has reported as booked a vehicle with two bookings that
\* end on different days
C30_Witness ==
    /\ IsRangedQuery
    /\ \E v \in DOMAIN ret.value :
          /\ ret.value[v].status = "booked"
          /\ \E j, k \in BookingsOf(v) :
                /\ bookings[j].status # "cancelled"
                /\ bookings[k].status # "cancelled"
                /\ StrLess(bookings[j].endDate, bookings[k].endDate)

====
